---- MODULE Spec2Model ----
(***************************************************************************)
(* Model of the retry engine of core/error_recovery.py: RetryConfig and    *)
(* its validation, ErrorRecoverySystem.calculate_delay and                 *)
(* execute_with_retry, reset_stats, the retry decorator and                *)
(* retry_operation.                                                        *)
(*                                                                         *)
(* Time is fixed-point: one unit is 1/Unit of a second, so base_delay =    *)
(* 1.0 is Unit.  jitter_factor is fixed-point too (0.1 is Unit \div 10).   *)
(* All delays of the model are whole seconds, so every product the code    *)
(* computes is exact in the model.                                         *)
(*                                                                         *)
(* Model of chatbot/mcp_client.py as well: MCPChatbotClient, the child     *)
(* processes it starts and the lines that travel over their stdin and      *)
(* stdout.  A response line is kept as its shape, the id of the request    *)
(* it answers and the code of its error object.  The clock of the read     *)
(* loop counts passes of the loop, the clock of disconnect counts seconds. *)
(*                                                                         *)
(* Model of core/webhook_server.py as well: WebhookServer with the tasks   *)
(* that await its operations; a task runs from one suspension to the next  *)
(* in one step.                                                            *)
(***************************************************************************)
EXTENDS Integers, Sequences, FiniteSets, TLC

\* ---------------------------------------------------------------- bounds
\* largest max_retries a caller passes
MaxRetries == 2
\* execute_with_retry is not started on the shared system once its
\* counter has passed this value (keeps the counter finite)
MaxTotal == 1
\* largest attempt index calculate_delay is asked about on its own
MaxAttempt == 4
\* requests one MCPChatbotClient issues
MaxRequests == 2
\* child processes one MCPChatbotClient starts
MaxChildren == 2
\* response lines waiting in the child's stdout pipe
MaxBuf == 2

\* tasks that call the WebhookServer at the same time
MaxTasks == 2
\* operations called on the WebhookServer in one behaviour
MaxCalls == 4

\* ------------------------------------------------------ program constants
\* fixed-point scale: 1.0 second, and jitter_factor 1.0
Unit == 10
DefaultMaxRetries == 3
DefaultBaseDelay == 10
DefaultMaxDelay == 600
DefaultExponentialBase == 2
DefaultJitterFactor == 1

EXPONENTIAL == "exponential"
LINEAR == "linear"
\* RetryStrategy.CONSTANT (the upper-case word is reserved in TLA+)
Constant == "constant"
RetryStrategy == {EXPONENTIAL, LINEAR, Constant}

\* exception types an operation raises
ExcTypes == {"ValueError", "TypeError"}
\* retryable_exceptions=(Exception,) catches every type
CatchAll == ExcTypes
\* values an operation returns
Values == {"a", "b"}
None == "None"

\* ------------------------------------------------------------ exceptions
\* src: the call of the operation that raised it (1, 2, ...), 0 for
\* time.sleep, -1 for RetryConfig.__post_init__
NoException == [type |-> None, msg |-> None, src |-> -2]
OpException(t, n) == [type |-> t, msg |-> "op", src |-> n]
SleepValueError == [type |-> "ValueError", msg |-> "sleep length must be non-negative", src |-> 0]
ConfigValueError(m) == [type |-> "ValueError", msg |-> m, src |-> -1]

\* ----------------------------------------------------------- RetryConfig
RetryConfigFields(mr, bd, md, eb, j, jf, st, re) ==
    [max_retries |-> mr, base_delay |-> bd, max_delay |-> md,
     exponential_base |-> eb, jitter |-> j, jitter_factor |-> jf,
     strategy |-> st, retryable_exceptions |-> re]

\* RetryConfig(): every field at its default
DefaultRetryConfig ==
    RetryConfigFields(DefaultMaxRetries, DefaultBaseDelay, DefaultMaxDelay,
                      DefaultExponentialBase, TRUE, DefaultJitterFactor,
                      EXPONENTIAL, CatchAll)

\* __post_init__ without the max_delay check
PostInitNoMaxDelayCheck(c) ==
    IF c.max_retries < 0 THEN "max_retries must be non-negative"
    ELSE IF c.base_delay < 0 THEN "base_delay must be non-negative"
    ELSE IF ~(0 <= c.jitter_factor /\ c.jitter_factor <= Unit)
         THEN "jitter_factor must be between 0 and 1"
    ELSE "ok"

\* RetryConfig.__post_init__: "ok" or the message of the ValueError
PostInit(c) ==
    IF c.max_retries < 0 THEN "max_retries must be non-negative"
    ELSE IF c.base_delay < 0 THEN "base_delay must be non-negative"
    ELSE IF c.max_delay < c.base_delay THEN "max_delay must be >= base_delay"
    ELSE IF ~(0 <= c.jitter_factor /\ c.jitter_factor <= Unit)
         THEN "jitter_factor must be between 0 and 1"
    ELSE "ok"

\* arguments callers pass, valid and invalid
MaxRetriesArgs == -1 .. MaxRetries
BaseDelayArgs == {-Unit, 0, Unit}
MaxDelayArgs == {0, 2 * Unit}
ExponentialBaseArgs == {-2, 2}
JitterFactorArgs == {-1, Unit \div 2, Unit, Unit + 1}
RetryableArgs == {{"ValueError"}, CatchAll}

ConfigArgs ==
    {RetryConfigFields(mr, bd, md, eb, j, jf, st, re) :
        mr \in MaxRetriesArgs, bd \in BaseDelayArgs, md \in MaxDelayArgs,
        eb \in ExponentialBaseArgs, j \in BOOLEAN, jf \in JitterFactorArgs,
        st \in RetryStrategy, re \in RetryableArgs}

\* retry(...) has no jitter_factor parameter
DecoratorArgs ==
    {RetryConfigFields(mr, bd, md, eb, j, DefaultJitterFactor, st, re) :
        mr \in MaxRetriesArgs, bd \in BaseDelayArgs, md \in MaxDelayArgs,
        eb \in ExponentialBaseArgs, j \in BOOLEAN,
        st \in RetryStrategy, re \in RetryableArgs}

\* retry_operation(...) passes max_retries, base_delay, retryable_exceptions
OperationArgs ==
    {RetryConfigFields(mr, bd, DefaultMaxDelay, DefaultExponentialBase, TRUE,
                       DefaultJitterFactor, EXPONENTIAL, re) :
        mr \in MaxRetriesArgs, bd \in BaseDelayArgs, re \in RetryableArgs}

\* -------------------------------------------------------- calculate_delay
Min(a, b) == IF a < b THEN a ELSE b
Max(a, b) == IF a > b THEN a ELSE b

RECURSIVE Pow(_, _)
\* b ** n for n >= 0 (0 ** 0 = 1)
Pow(b, n) == IF n = 0 THEN 1 ELSE b * Pow(b, n - 1)

\* random() drawn from {0, 1/2, 1}, as the numerator of a half
Draws == {0, 1, 2}
\* random.uniform(a, b) = a + (b - a) * random()
Uniform(a, b, u) == a + ((b - a) * u) \div 2

\* the delay before jitter: strategy, then the max_delay cap
CappedDelay(attempt, c) ==
    LET raw == IF c.strategy = EXPONENTIAL
                   THEN c.base_delay * Pow(c.exponential_base, attempt)
               ELSE IF c.strategy = LINEAR
                   THEN c.base_delay * (attempt + 1)
               ELSE c.base_delay
    IN Min(raw, c.max_delay)

\* ErrorRecoverySystem.calculate_delay with random draw u
CalculateDelay(attempt, c, u) ==
    LET d == CappedDelay(attempt, c)
    IN IF c.jitter
           THEN LET jitter_range == (d * c.jitter_factor) \div Unit
                IN Max(0, d + Uniform(-jitter_range, jitter_range, u))
           ELSE d

\* ------------------------------------------------------------- RetryResult
RetryResult(s, r, a, td, le) ==
    [success |-> s, result |-> r, attempts |-> a, total_delay |-> td,
     last_exception |-> le]
\* no RetryResult was returned
NoResult == RetryResult(FALSE, None, 0, 0, NoException)

\* a success that reports the loop index instead of the attempt count
SuccessResultZeroBased(v, a, td) == RetryResult(TRUE, v, a, td, NoException)

\* the RetryResult of a successful attempt (lines 174-179)
SuccessResult(v, a, td) == RetryResult(TRUE, v, a + 1, td, NoException)

\* the RetryResult after the loop (lines 198-203)
FailureResult(c, td, le) == RetryResult(FALSE, None, c.max_retries + 1, td, le)

\* an except clause that catches every exception
IsRetryableAny(t, c) == TRUE

\* except config.retryable_exceptions catches an exception of type t
IsRetryable(t, c) == t \in c.retryable_exceptions

\* a sleep after the last permitted attempt too
ShouldSleepAlways(a, c) == a <= c.max_retries

\* if attempt < config.max_retries: sleep before the next attempt
ShouldSleep(a, c) == a < c.max_retries

\* for attempt in range(config.max_retries + 1): is there an iteration a
InRange(a, c) == a < c.max_retries + 1

\* what the caller of an entry point observes
Outcome(k, rr, v, e) == [kind |-> k, result |-> rr, value |-> v, exc |-> e]
NoOutcome == Outcome("none", NoResult, None, NoException)

\* ------------------------------------------------------------------ state
VARIABLES
    default_config,    \* ErrorRecoverySystem._default_config
    total_retries,     \* _total_retries of each ErrorRecoverySystem
    retries_performed, \* re-attempts each system made since its last reset
    caller,            \* entry point of the execution
    pc,                \* position in execute_with_retry
    config,            \* config in use
    attempt,           \* loop index
    total_delay,
    last_exception,
    delay,             \* duration about to be slept
    opHist,            \* outcome of every call of the operation
    sleeps,            \* durations passed to time.sleep
    retries_at_start,  \* total_retries when the execution began
    ctor_args,         \* arguments of the last RetryConfig(...) call
    outcome,
    closure            \* config in the closure of the wrapper retry() made

\* ------------------------------------------------- MCP client: constants
\* disconnect(): self.process.wait(timeout=5), in seconds
GracePeriod == 5
\* the timeout argument of MCPChatbotClient(...), counted in passes of the
\* read loop (one pass sleeps 0.01 s); 0 makes the loop body unreachable
TimeoutArgs == {0, 2}
\* the read-loop clock stops counting one pass after the largest timeout
MaxClock == 3
\* self.process = None
NoProcess == 0
\* list_tools(): the cache is used while younger than 60 seconds
CacheTTL == 60
\* seconds that go by between two calls of the client
TimeStep == 30

\* response["result"].get("tools", []) of the answer f: the request it
\* answers and whether the list is empty
Tools(f) == [of |-> f.id, empty |-> f.shape = "no_tools"]
\* self._tools_cache = None
NoTools == [of |-> 0, empty |-> TRUE]

\* one line of the child's stdout.  A JSON object frame answers the request
\* whose id it carries; "garbage" is a line that is not JSON (the banner
\* that python -m mcp_k3s_monitor prints), "blank" is a bare newline.
\* "no_tools" is a result whose tool list is empty, "result" any other
\* result.
JsonShapes == {"result", "no_tools", "error", "both", "neither"}
NoiseShapes == {"garbage", "blank"}
\* the code of the error object of a JSON-RPC error envelope
ErrorCodes == {-32601}
Frame(sh, i, c) == [shape |-> sh, id |-> i, code |-> c]
\* response_line = "" before anything is read
NoFrame == Frame("none", 0, 0)
\* the "" readline returns at end of file
EmptyLine == Frame("empty", 0, 0)
\* "result" in response / "error" in response
HasResultKey(f) == f.shape \in {"result", "no_tools", "both"}
HasErrorKey(f) == f.shape \in {"error", "both"}
\* json.loads(response_line) raises JSONDecodeError
NotJson(f) == f.shape \in NoiseShapes

\* what a client call gives its caller: result is the id of the request
\* whose result is returned (0: none), code the error code the raised
\* message shows (0: none)
ClientOutcome(k, e, ca, r, c) ==
    [kind |-> k, err |-> e, cause |-> ca, result |-> r, code |-> c]
NoClientOutcome == ClientOutcome("none", "", "", 0, 0)
ClientReturned(r) == ClientOutcome("returned", "", "", r, 0)
\* raise MCPChatbotClientError(f"{e}: {ca}")
ClientError(e, ca, c) == ClientOutcome("raised", e, ca, 0, c)

VARIABLES
    cpc,          \* position of the client's caller
    timeout,      \* self.timeout
    process,      \* self.process: the child it refers to, or NoProcess
    spawned,      \* children started so far
    live,         \* children that are running
    request_id,   \* self.request_id
    tools_cache,  \* self._tools_cache
    cache_age,    \* time.time() - self._tools_cache_time, at most CacheTTL
    stdin,        \* request ids in self.process.stdin, unread by the child
    stdout,       \* frames in self.process.stdout, unread by the client
    op,           \* the operation in progress
    cur_id,       \* request_id local of _send_request
    clock,        \* passes of the read loop / seconds waited in disconnect
    response,     \* the frame readline returned
    result,       \* what the operation gave its caller
    sent,         \* ids of the requests passed to stdin.write, in order
    procOps,      \* process operations of the disconnect in progress
    arg_use_cache, \* use_cache of the list_tools call in progress
    arg_kwargs,    \* whether json.dumps accepts the params of the call
    sent_before   \* Len(sent) when the call in progress began

clientVars == <<cpc, timeout, process, spawned, live, request_id,
                tools_cache, cache_age, stdin, stdout, op, cur_id, clock,
                response, result, sent, procOps, arg_use_cache, arg_kwargs,
                sent_before>>

\* nothing of the client exists before MCPChatbotClient(...) is called
InitClient ==
    /\ cpc = "new"
    /\ timeout = 0
    /\ process = NoProcess
    /\ spawned = 0
    /\ live = {}
    /\ request_id = 0
    /\ tools_cache = NoTools
    /\ cache_age = CacheTTL
    /\ stdin = <<>>
    /\ stdout = <<>>
    /\ op = "none"
    /\ cur_id = 0
    /\ clock = 0
    /\ response = NoFrame
    /\ result = NoClientOutcome
    /\ sent = <<>>
    /\ procOps = <<>>
    /\ arg_use_cache = FALSE
    /\ arg_kwargs = "json"
    /\ sent_before = 0

\* ----------------------------------------------- WebhookServer: state
\* ServerState
STOPPED == "stopped"
STARTING == "starting"
RUNNING == "running"
STOPPING == "stopping"
RESTARTING == "restarting"
ServerState == {STOPPED, STARTING, RUNNING, STOPPING, RESTARTING}

\* ServerConfig, reduced to the field the server reads
ServerConfig(e) == [enable_code_generation |-> e]
\* no WebhookServer has been constructed
NoServerConfig == [constructed |-> FALSE]

\* ServerMetrics()
ServerMetrics ==
    [restart_count |-> 0, requests_handled |-> 0, code_generations |-> 0,
     errors |-> 0]

\* coroutines that run on the event loop at the same time
Tasks == 1 .. MaxTasks
NoTask == 0

\* asyncio.Lock(): its holder and the queue of tasks waiting in acquire
Unlocked == [holder |-> NoTask, waiters |-> <<>>]

\* what an operation gave the task that awaited it
Completed == "returned"
AlreadyRunning == "RuntimeError: Server is already running"
NotRunning == "RuntimeError: Server is not running"
NotEnabled == "RuntimeError: Code generation is not enabled"
\* the exception an overriding _initialize or _cleanup raised
HookError == "Exception"

\* a task that awaits nothing; "alone" tells whether any other task was
\* inside an operation while the operation of this one was in progress
IdleTask == [op |-> "none", pc |-> "idle", result |-> "none", alone |-> TRUE]

VARIABLES
    server_config,            \* self.config
    _state,                   \* self._state
    _metrics,                 \* self._metrics
    _lock,                    \* self._lock
    _code_generation_enabled, \* self._code_generation_enabled
    tasks,                    \* each task's operation and position in it
    calls                     \* operations called so far

serverVars == <<server_config, _state, _metrics, _lock,
                _code_generation_enabled, tasks, calls>>

\* nothing of the server exists before WebhookServer(...) is called
InitServer ==
    /\ server_config = NoServerConfig
    /\ _state = STOPPED
    /\ _metrics = ServerMetrics
    /\ _lock = Unlocked
    /\ _code_generation_enabled = FALSE
    /\ tasks = [t \in Tasks |-> IdleTask]
    /\ calls = 0

engineVars == <<default_config, total_retries, retries_performed,
                caller, pc, config, attempt, total_delay, last_exception,
                delay, opHist, sleeps, retries_at_start, ctor_args, outcome,
                closure>>

vars == <<engineVars, clientVars, serverVars>>

\* "shared": the system the program keeps and calls execute_with_retry on;
\* "decorator": the system retry() builds once and keeps in the closure
\* of its wrapper; "local": the system each retry_operation() call builds
Systems == {"shared", "decorator", "local"}
System(cl) == IF cl = "direct" THEN "shared"
              ELSE IF cl = "decorator" THEN "decorator"
              ELSE "local"

\* retry() has not been called: no wrapper exists
NoClosure == [wrapper |-> FALSE]

Init ==
    /\ default_config = DefaultRetryConfig
    /\ total_retries = [s \in Systems |-> 0]
    /\ retries_performed = [s \in Systems |-> 0]
    /\ caller = "none"
    /\ pc = "idle"
    /\ config = DefaultRetryConfig
    /\ attempt = 0
    /\ total_delay = 0
    /\ last_exception = NoException
    /\ delay = 0
    /\ opHist = <<>>
    /\ sleeps = <<>>
    /\ retries_at_start = 0
    /\ ctor_args = DefaultRetryConfig
    /\ outcome = NoOutcome
    /\ closure = NoClosure
    /\ InitClient
    /\ InitServer

\* the locals of execute_with_retry before its loop (lines 167-169)
Begin(cl, c, tr) ==
    /\ caller' = cl
    /\ config' = c
    /\ ctor_args' = c
    /\ total_retries' = tr
    /\ retries_at_start' = tr[System(cl)]
    /\ pc' = "attempt"
    /\ attempt' = 0
    /\ total_delay' = 0
    /\ last_exception' = NoException
    /\ delay' = 0
    /\ opHist' = <<>>
    /\ sleeps' = <<>>
    /\ outcome' = NoOutcome

\* RetryConfig(**args) raised: execute_with_retry is never entered
Rejected(cl, args) ==
    /\ caller' = cl
    /\ ctor_args' = args
    /\ outcome' = Outcome("raised", NoResult, None,
                          ConfigValueError(PostInit(args)))
    /\ pc' = "done"
    /\ UNCHANGED <<config, total_retries, retries_at_start, attempt,
                   total_delay, last_exception, delay, opHist, sleeps>>

\* recovery.execute_with_retry(func, RetryConfig(**args)) on the shared system
ExecuteWithRetry(args) ==
    /\ pc = "idle"
    /\ closure = NoClosure
    /\ total_retries["shared"] <= MaxTotal
    /\ IF PostInit(args) = "ok"
           THEN Begin("direct", args, total_retries)
           ELSE Rejected("direct", args)
    /\ UNCHANGED <<default_config, retries_performed>>
    /\ UNCHANGED closure
    /\ UNCHANGED <<clientVars, serverVars>>

\* recovery.execute_with_retry(func): config = config or self._default_config
ExecuteWithRetryDefault ==
    /\ pc = "idle"
    /\ closure = NoClosure
    /\ total_retries["shared"] <= MaxTotal
    /\ Begin("direct", default_config, total_retries)
    /\ UNCHANGED <<default_config, retries_performed>>
    /\ UNCHANGED closure
    /\ UNCHANGED <<clientVars, serverVars>>

\* f = retry(**args)(func): retry() builds its config and its own system
\* once and the wrapper keeps both; RetryConfig(**args) may raise instead.
\* The model follows one wrapper, made while the shared system has not
\* retried anything (a decorator is applied where the function is
\* defined); once it exists, every execution is a call of it.
Retry(args) ==
    /\ pc = "idle"
    /\ closure = NoClosure
    /\ total_retries["shared"] = 0
    /\ retries_performed["shared"] = 0
    /\ IF PostInit(args) = "ok"
           THEN /\ closure' = args
                /\ total_retries' =
                       [total_retries EXCEPT !["decorator"] = 0]
                /\ retries_performed' =
                       [retries_performed EXCEPT !["decorator"] = 0]
                /\ UNCHANGED <<caller, pc, config, attempt, total_delay,
                               last_exception, delay, opHist, sleeps,
                               retries_at_start, ctor_args, outcome>>
           ELSE /\ Rejected("decorator", args)
                /\ UNCHANGED <<closure, retries_performed>>
    /\ UNCHANGED default_config
    /\ UNCHANGED <<clientVars, serverVars>>

\* f(): the wrapper runs execute_with_retry on the system and the config
\* of its closure
Wrapper ==
    /\ pc = "idle"
    /\ closure # NoClosure
    /\ total_retries["decorator"] <= MaxTotal
    /\ Begin("decorator", closure, total_retries)
    /\ UNCHANGED <<default_config, retries_performed, closure>>
    /\ UNCHANGED <<clientVars, serverVars>>

\* retry_operation(func, max_retries=, base_delay=, retryable_exceptions=)
RetryOperation(args) ==
    /\ pc = "idle"
    /\ closure = NoClosure
    /\ IF PostInit(args) = "ok"
           THEN Begin("retry_operation", args,
                      [total_retries EXCEPT !["local"] = 0])
           ELSE Rejected("retry_operation", args)
    /\ retries_performed' = [retries_performed EXCEPT !["local"] = 0]
    /\ UNCHANGED default_config
    /\ UNCHANGED closure
    /\ UNCHANGED <<clientVars, serverVars>>

\* a call of the operation with index attempt > 0 is a re-attempt
Performed == IF attempt > 0
                 THEN [retries_performed EXCEPT ![System(caller)] = @ + 1]
                 ELSE retries_performed

\* raised for a failed result that carries no exception: by the wrapper of
\* retry(), and by retry_operation()
RuntimeError(cl) ==
    [type |-> "RuntimeError",
     msg |-> IF cl = "decorator"
                 THEN "Retry failed without exception"
                 ELSE "Retry operation failed without exception",
     src |-> -3]

\* execute_with_retry returns rr; the wrapper of retry() and
\* retry_operation() turn it into a value or an exception
Returned(rr) ==
    IF caller = "direct" THEN Outcome("result", rr, None, NoException)
    ELSE IF rr.success THEN Outcome("value", rr, rr.result, NoException)
    ELSE IF rr.last_exception # NoException
         THEN Outcome("raised", rr, None, rr.last_exception)
    ELSE Outcome("raised", rr, None, RuntimeError(caller))

\* an exception leaves execute_with_retry
Propagated(e) == Outcome("raised", NoResult, None, e)

\* result = func(*args, **kwargs) returned v (lines 173-179)
FuncReturns(v) ==
    /\ pc = "attempt"
    /\ opHist' = Append(opHist, [kind |-> "return", value |-> v, exc |-> NoException])
    /\ retries_performed' = Performed
    /\ outcome' = Returned(SuccessResult(v, attempt, total_delay))
    /\ pc' = "done"
    /\ UNCHANGED <<default_config, ctor_args, total_retries, caller, config, attempt,
                   total_delay, last_exception, delay, sleeps,
                   retries_at_start>>
    /\ UNCHANGED closure
    /\ UNCHANGED <<clientVars, serverVars>>

\* func raised an exception the except clause catches (lines 180-196)
FuncRaisesRetryable(t, u) ==
    /\ pc = "attempt"
    /\ IsRetryable(t, config)
    /\ LET e == OpException(t, Len(opHist) + 1)
       IN /\ opHist' = Append(opHist, [kind |-> "raise", value |-> None, exc |-> e])
          /\ last_exception' = e
    /\ retries_performed' = Performed
    /\ total_retries' = [total_retries EXCEPT ![System(caller)] = @ + 1]
    /\ IF ShouldSleep(attempt, config)
           THEN /\ delay' = CalculateDelay(attempt, config, u)
                /\ total_delay' = total_delay + delay'
                /\ pc' = "sleep"
           ELSE /\ pc' = "exhausted"
                /\ UNCHANGED <<delay, total_delay>>
    /\ UNCHANGED <<default_config, ctor_args, caller, config, attempt, sleeps,
                   retries_at_start, outcome>>
    /\ UNCHANGED closure
    /\ UNCHANGED <<clientVars, serverVars>>

\* func raised an exception the except clause does not catch
FuncRaisesOther(t) ==
    /\ pc = "attempt"
    /\ ~IsRetryable(t, config)
    /\ LET e == OpException(t, Len(opHist) + 1)
       IN /\ opHist' = Append(opHist, [kind |-> "raise", value |-> None, exc |-> e])
          /\ outcome' = Propagated(e)
    /\ retries_performed' = Performed
    /\ pc' = "done"
    /\ UNCHANGED <<default_config, ctor_args, total_retries, caller, config, attempt,
                   total_delay, last_exception, delay, sleeps,
                   retries_at_start>>
    /\ UNCHANGED closure
    /\ UNCHANGED <<clientVars, serverVars>>

\* time.sleep(delay) (line 191), then the next iteration of the loop
Sleep ==
    /\ pc = "sleep"
    /\ delay >= 0
    /\ sleeps' = Append(sleeps, delay)
    /\ IF InRange(attempt + 1, config)
           THEN /\ attempt' = attempt + 1
                /\ pc' = "attempt"
           ELSE /\ pc' = "exhausted"
                /\ UNCHANGED attempt
    /\ UNCHANGED <<default_config, ctor_args, total_retries, retries_performed, caller,
                   config, total_delay, last_exception, delay, opHist,
                   retries_at_start, outcome>>
    /\ UNCHANGED closure
    /\ UNCHANGED <<clientVars, serverVars>>

\* time.sleep raises ValueError for a negative duration; raised inside the
\* except block, it leaves execute_with_retry
SleepRaises ==
    /\ pc = "sleep"
    /\ delay < 0
    /\ sleeps' = Append(sleeps, delay)
    /\ outcome' = Propagated(SleepValueError)
    /\ pc' = "done"
    /\ UNCHANGED <<default_config, ctor_args, total_retries, retries_performed, caller,
                   config, attempt, total_delay, last_exception, delay,
                   opHist, retries_at_start>>
    /\ UNCHANGED closure
    /\ UNCHANGED <<clientVars, serverVars>>

\* the loop is over: return RetryResult(success=False, ...) (lines 198-203)
ReturnFailure ==
    /\ pc = "exhausted"
    /\ outcome' = Returned(FailureResult(config, total_delay, last_exception))
    /\ pc' = "done"
    /\ UNCHANGED <<default_config, ctor_args, total_retries, retries_performed, caller,
                   config, attempt, total_delay, last_exception, delay,
                   opHist, sleeps, retries_at_start>>
    /\ UNCHANGED closure
    /\ UNCHANGED <<clientVars, serverVars>>

\* ErrorRecoverySystem.reset_stats on the shared system
ResetStats ==
    /\ pc = "idle"
    /\ total_retries' = [total_retries EXCEPT !["shared"] = 0]
    /\ retries_performed' = [retries_performed EXCEPT !["shared"] = 0]
    /\ UNCHANGED <<default_config, ctor_args, caller, pc, config, attempt, total_delay,
                   last_exception, delay, opHist, sleeps, retries_at_start,
                   outcome>>
    /\ UNCHANGED closure
    /\ UNCHANGED <<clientVars, serverVars>>

\* the entry point has returned or raised: its frame, and the system that
\* retry_operation() built, are out of reach
Done ==
    /\ pc = "done"
    /\ pc' = "idle"
    /\ caller' = "none"
    /\ config' = default_config
    /\ attempt' = 0
    /\ total_delay' = 0
    /\ last_exception' = NoException
    /\ delay' = 0
    /\ opHist' = <<>>
    /\ sleeps' = <<>>
    /\ retries_at_start' = 0
    /\ ctor_args' = default_config
    /\ outcome' = NoOutcome
    /\ total_retries' = [total_retries EXCEPT !["local"] = 0]
    /\ retries_performed' = [retries_performed EXCEPT !["local"] = 0]
    /\ UNCHANGED default_config
    /\ UNCHANGED closure
    /\ UNCHANGED <<clientVars, serverVars>>

Next ==
     \/ \E args \in ConfigArgs : ExecuteWithRetry(args)
     \/ ExecuteWithRetryDefault
     \/ ExecuteWithRetryDefault
     \/ \E args \in DecoratorArgs : Retry(args)
     \/ Wrapper
     \/ \E args \in OperationArgs : RetryOperation(args)
     \/ \E v \in Values : FuncReturns(v)
     \/ \E t \in ExcTypes, u \in Draws : FuncRaisesRetryable(t, u)
     \/ \E t \in ExcTypes : FuncRaisesOther(t)
     \/ Sleep
     \/ SleepRaises
     \/ ReturnFailure
     \/ Done
     \/ ResetStats

Spec == Init /\ [][Next]_vars

\* recovery.calculate_delay(a, RetryConfig(**args)) called on its own
CalculateDelayCall(a, args, u) ==
    /\ pc = "idle"
    /\ PostInit(args) = "ok"
    /\ caller' = "calculate_delay"
    /\ config' = args
    /\ ctor_args' = args
    /\ attempt' = a
    /\ delay' = CalculateDelay(a, args, u)
    /\ pc' = "done"
    /\ UNCHANGED <<default_config, total_retries, retries_performed,
                   total_delay, last_exception, opHist, sleeps,
                   retries_at_start, outcome>>
    /\ UNCHANGED closure
    /\ UNCHANGED <<clientVars, serverVars>>

NextDelay ==
     \/ \E a \in 0 .. MaxAttempt, args \in ConfigArgs, u \in Draws :
            CalculateDelayCall(a, args, u)
     \/ Done

\* the backoff calculator alone: every valid config, attempt and draw
SpecDelay == Init /\ [][NextDelay]_vars

\* ============================================================ MCP client
\* chatbot/mcp_client.py: MCPChatbotClient and the child process it talks
\* to over stdin/stdout.  The child is the environment: it may answer the
\* oldest request it has not answered, print a line that is no answer, or
\* exit, at any moment.

\* tool_name of call_tool, and of the methods that only call call_tool
ToolNames == {"call_tool", "get_cluster_health", "list_pods", "get_pod_logs",
              "list_deployments", "list_nodes", "list_namespaces"}

\* is_connected(): self.process is not None and self.process.poll() is None
IsConnected == process # NoProcess /\ process \in live

\* call_tool after _send_request returned the decoded frame f
CallToolResult(f) ==
    IF HasResultKey(f) THEN ClientReturned(f.id)
    ELSE IF HasErrorKey(f) THEN ClientError("Tool error", "", f.code)
    ELSE ClientError("Unexpected response", "", f.code)

\* list_tools after _send_request returned the decoded frame f; the
\* message shows the whole response
ListToolsResultNoCode(f) ==
    IF HasResultKey(f) THEN ClientReturned(f.id)
    ELSE ClientError("Failed to list tools", "", 0)
ListToolsResult(f) ==
    IF HasResultKey(f) THEN ClientReturned(f.id)
    ELSE ClientError("Failed to list tools", "", f.code)

\* str(e) of the JSONDecodeError json.loads raises on a bare newline and
\* on the banner line
DecodeErrorText(f) ==
    IF f.shape = "blank"
    THEN "Expecting value: line 2 column 1 (char 1)"
    ELSE "Expecting value: line 1 column 1 (char 0)"

\* json.loads(response_line) and what the operation o makes of it
Complete(o, f) ==
    IF NotJson(f)
    THEN ClientError("Invalid JSON response from server",
                     DecodeErrorText(f), 0)
    ELSE IF o = "list_tools" THEN ListToolsResult(f)
    ELSE CallToolResult(f)

\* raise MCPChatbotClientError("No response from MCP server (timeout)"),
\* caught by "except Exception" of _send_request and raised again
TimeoutError ==
    ClientError("Request failed", "No response from MCP server (timeout)", 0)
\* stdin.write on the pipe of a child that has exited
BrokenPipeError == ClientError("Request failed", "Broken pipe", 0)
NotConnectedError == ClientError("Not connected to MCP server", "", 0)
\* json.dumps on params that hold a value JSON has no form for
NotSerializableError ==
    ClientError("Request failed", "not JSON serializable", 0)
\* **kwargs of call_tool: values json.dumps accepts, or not
KwargsArgs == {"json", "not_json"}

\* MCPChatbotClient(timeout=t, auto_connect=ac); with auto_connect the
\* constructor calls connect()
ClientInit(t, ac) ==
    /\ cpc = "new"
    /\ cpc' = "idle"
    /\ timeout' = t
    /\ request_id' = 0
    /\ tools_cache' = NoTools
    /\ cache_age' = CacheTTL
    /\ IF ac
       THEN /\ spawned' = spawned + 1
            /\ process' = spawned + 1
            /\ live' = live \cup {spawned + 1}
       ELSE /\ process' = NoProcess
            /\ UNCHANGED <<spawned, live>>
    /\ UNCHANGED <<engineVars, serverVars>>
    /\ UNCHANGED <<arg_use_cache, arg_kwargs, sent_before>>
    /\ UNCHANGED <<stdin, stdout, op, cur_id, clock, response, result,
                   sent, procOps>>

\* MCPChatbotClient(timeout=t, auto_connect=True) where Popen raises: the
\* constructor raises what connect() raises and no client exists
ClientInitFails(t) ==
    /\ cpc = "new"
    /\ op' = "init"
    /\ result' = ClientError("Failed to connect to MCP server", "OSError", 0)
    /\ cpc' = "done"
    /\ UNCHANGED <<engineVars, serverVars>>
    /\ UNCHANGED <<arg_use_cache, arg_kwargs, sent_before>>
    /\ UNCHANGED <<timeout, process, spawned, live, request_id, tools_cache,
                   cache_age, stdin, stdout, cur_id, clock, response,
                   sent, procOps>>

\* connect(): Popen succeeds; self.process is overwritten, whatever it was
Connect ==
    /\ cpc = "idle"
    /\ spawned < MaxChildren
    /\ spawned' = spawned + 1
    /\ process' = spawned + 1
    /\ live' = live \cup {spawned + 1}
    /\ stdin' = <<>>
    /\ stdout' = <<>>
    /\ op' = "connect"
    /\ result' = ClientReturned(0)
    /\ cpc' = "done"
    /\ UNCHANGED <<engineVars, serverVars>>
    /\ UNCHANGED <<arg_use_cache, arg_kwargs, sent_before>>
    /\ UNCHANGED <<timeout, request_id, tools_cache, cache_age, cur_id,
                   clock, response, sent, procOps>>

\* connect(): Popen raises, self.process is left as it was
ConnectFails ==
    /\ cpc = "idle"
    /\ op' = "connect"
    /\ result' = ClientError("Failed to connect to MCP server", "OSError", 0)
    /\ cpc' = "done"
    /\ UNCHANGED <<engineVars, serverVars>>
    /\ UNCHANGED <<arg_use_cache, arg_kwargs, sent_before>>
    /\ UNCHANGED <<timeout, process, spawned, live, request_id, tools_cache,
                   cache_age, stdin, stdout, cur_id, clock, response,
                   sent, procOps>>

\* _get_next_request_id(): self.request_id += 1; return self.request_id
NextRequestIdFloor == Max(request_id, 1)
NextRequestId == request_id + 1

\* _send_request up to the write: the connection check, then
\* _get_next_request_id()
SendRequestNoCheck(o) ==
    /\ request_id < MaxRequests
    /\ op' = o
    /\ request_id' = NextRequestId
    /\ cur_id' = NextRequestId
    /\ cpc' = "write"
    /\ UNCHANGED result
SendRequest(o) ==
    /\ IsConnected => request_id < MaxRequests
    /\ op' = o
    /\ IF ~IsConnected
       THEN /\ result' = NotConnectedError
            /\ cpc' = "done"
            /\ UNCHANGED <<request_id, cur_id>>
       ELSE /\ request_id' = NextRequestId
            /\ cur_id' = NextRequestId
            /\ cpc' = "write"
            /\ UNCHANGED result

\* call_tool(tool_name, **kwargs), and the methods built on it
CallTool(tool_name, kwargs) ==
    /\ cpc = "idle"
    /\ SendRequest("call_tool")
    /\ arg_use_cache' = FALSE
    /\ arg_kwargs' = kwargs
    /\ sent_before' = Len(sent)
    /\ UNCHANGED <<engineVars, serverVars>>
    /\ UNCHANGED <<timeout, process, spawned, live, tools_cache, cache_age,
                   stdin, stdout, clock, response, sent, procOps>>

\* "if use_cache and self._tools_cache": None and [] are both false
Cached(t) == ~t.empty
\* time.time() - self._tools_cache_time < 60
CacheFresh == cache_age < CacheTTL

\* list_tools(use_cache)
ListTools(use_cache) ==
    /\ cpc = "idle"
    /\ IF use_cache /\ Cached(tools_cache) /\ CacheFresh
       THEN /\ op' = "list_tools"
            /\ result' = ClientReturned(tools_cache.of)
            /\ cpc' = "done"
            /\ UNCHANGED <<request_id, cur_id>>
       ELSE SendRequest("list_tools")
    /\ arg_use_cache' = use_cache
    /\ arg_kwargs' = "json"
    /\ sent_before' = Len(sent)
    /\ UNCHANGED <<engineVars, serverVars>>
    /\ UNCHANGED <<timeout, process, spawned, live, tools_cache, cache_age,
                   stdin, stdout, clock, response, sent, procOps>>

\* message.to_json(), stdin.write(request_json), flush, start_time =
\* time.time() and the first test of the while condition; json.dumps raises
\* TypeError for params it cannot serialise, before anything is written
Write ==
    /\ cpc = "write"
    /\ IF arg_kwargs = "not_json"
       THEN /\ result' = NotSerializableError
            /\ cpc' = "done"
            /\ UNCHANGED <<sent, stdin, clock>>
       ELSE /\ sent' = Append(sent, cur_id)
            /\ clock' = 0
            /\ IF process \notin live
               THEN /\ result' = BrokenPipeError
                    /\ cpc' = "done"
                    /\ UNCHANGED stdin
               ELSE /\ stdin' = Append(stdin, cur_id)
                    /\ IF 0 < timeout
                       THEN cpc' = "read" /\ UNCHANGED result
                       ELSE cpc' = "done" /\ result' = TimeoutError
    /\ UNCHANGED <<engineVars, serverVars>>
    /\ UNCHANGED <<arg_use_cache, arg_kwargs, sent_before>>
    /\ UNCHANGED <<timeout, process, spawned, live, request_id, tools_cache,
                   cache_age, stdout, op, cur_id, response, procOps>>

\* readline() returns a line: the loop ends, however long it took
ReadLine ==
    /\ cpc = "read"
    /\ stdout # <<>>
    /\ response' = Head(stdout)
    /\ stdout' = Tail(stdout)
    /\ result' = Complete(op, Head(stdout))
    /\ IF op = "list_tools" /\ ~NotJson(Head(stdout))
          /\ HasResultKey(Head(stdout))
       THEN tools_cache' = Tools(Head(stdout)) /\ cache_age' = 0
       ELSE UNCHANGED <<tools_cache, cache_age>>
    /\ cpc' = "done"
    /\ UNCHANGED <<engineVars, serverVars>>
    /\ UNCHANGED <<arg_use_cache, arg_kwargs, sent_before>>
    /\ UNCHANGED <<timeout, process, spawned, live, request_id, stdin, op,
                   cur_id, clock, sent, procOps>>

\* readline() returns "" (the child has exited and the pipe is empty):
\* time.sleep(0.01), then the while condition
ReadEOF ==
    /\ cpc = "read"
    /\ stdout = <<>>
    /\ process \notin live
    /\ response' = EmptyLine
    /\ clock' = Min(clock + 1, MaxClock)
    /\ IF clock + 1 < timeout
       THEN cpc' = "read" /\ UNCHANGED result
       ELSE cpc' = "done" /\ result' = TimeoutError
    /\ UNCHANGED <<engineVars, serverVars>>
    /\ UNCHANGED <<arg_use_cache, arg_kwargs, sent_before>>
    /\ UNCHANGED <<timeout, process, spawned, live, request_id, tools_cache,
                   cache_age, stdin, stdout, op, cur_id, sent, procOps>>

\* readline() blocks while the child is running and has written nothing;
\* the time of one pass of the loop goes by
ReadBlocks ==
    /\ cpc = "read"
    /\ stdout = <<>>
    /\ process \in live
    /\ clock < MaxClock
    /\ clock' = clock + 1
    /\ UNCHANGED <<engineVars, serverVars>>
    /\ UNCHANGED <<arg_use_cache, arg_kwargs, sent_before>>
    /\ UNCHANGED <<cpc, timeout, process, spawned, live, request_id,
                   tools_cache, cache_age, stdin, stdout, op, cur_id,
                   response, result, sent, procOps>>

\* disconnect() with self.process None
DisconnectNone ==
    /\ cpc = "idle"
    /\ process = NoProcess
    /\ op' = "disconnect"
    /\ result' = ClientReturned(0)
    /\ cpc' = "done"
    /\ UNCHANGED <<engineVars, serverVars>>
    /\ UNCHANGED <<arg_use_cache, arg_kwargs, sent_before>>
    /\ UNCHANGED <<timeout, process, spawned, live, request_id, tools_cache,
                   cache_age, stdin, stdout, cur_id, clock, response,
                   sent, procOps>>

\* disconnect(): self.process.terminate(), then wait(timeout=5) begins
DisconnectTerminate ==
    /\ cpc = "idle"
    /\ process # NoProcess
    /\ op' = "disconnect"
    /\ procOps' = <<"terminate">>
    /\ clock' = 0
    /\ cpc' = "wait"
    /\ UNCHANGED <<engineVars, serverVars>>
    /\ UNCHANGED <<arg_use_cache, arg_kwargs, sent_before>>
    /\ UNCHANGED <<timeout, process, spawned, live, request_id, tools_cache,
                   cache_age, stdin, stdout, cur_id, response, result,
                   sent>>

\* disconnect(): terminate() raises (os.kill refused); finally releases
\* the handle and the error leaves disconnect
DisconnectTerminateRaises ==
    /\ cpc = "idle"
    /\ process # NoProcess
    /\ process \in live
    /\ op' = "disconnect"
    /\ procOps' = <<"terminate">>
    /\ process' = NoProcess
    /\ stdin' = <<>>
    /\ stdout' = <<>>
    /\ result' = ClientOutcome("raised", "PermissionError", "", 0, 0)
    /\ cpc' = "done"
    /\ UNCHANGED <<engineVars, serverVars>>
    /\ UNCHANGED <<arg_use_cache, arg_kwargs, sent_before>>
    /\ UNCHANGED <<timeout, spawned, live, request_id, tools_cache,
                   cache_age, cur_id, clock, response, sent>>

\* a second of wait(timeout=5) goes by with the child still running
WaitBlocks ==
    /\ cpc = "wait"
    /\ process \in live
    /\ clock < GracePeriod
    /\ clock' = clock + 1
    /\ UNCHANGED <<engineVars, serverVars>>
    /\ UNCHANGED <<arg_use_cache, arg_kwargs, sent_before>>
    /\ UNCHANGED <<cpc, timeout, process, spawned, live, request_id,
                   tools_cache, cache_age, stdin, stdout, op, cur_id,
                   response, result, sent, procOps>>

\* wait(timeout=5) returns: the child has exited; finally releases the handle
WaitReturns ==
    /\ cpc = "wait"
    /\ process \notin live
    /\ procOps' = Append(procOps, "wait")
    /\ process' = NoProcess
    /\ stdin' = <<>>
    /\ stdout' = <<>>
    /\ result' = ClientReturned(0)
    /\ cpc' = "done"
    /\ UNCHANGED <<engineVars, serverVars>>
    /\ UNCHANGED <<arg_use_cache, arg_kwargs, sent_before>>
    /\ UNCHANGED <<timeout, spawned, live, request_id, tools_cache,
                   cache_age, op, cur_id, clock, response, sent>>

\* wait(timeout=5) raises TimeoutExpired: kill(), then finally
WaitExpiresAt(limit) ==
    /\ cpc = "wait"
    /\ process \in live
    /\ clock = limit
    /\ procOps' = procOps \o <<"wait", "kill">>
    /\ live' = live \ {process}
    /\ process' = NoProcess
    /\ stdin' = <<>>
    /\ stdout' = <<>>
    /\ result' = ClientReturned(0)
    /\ cpc' = "done"
    /\ UNCHANGED <<engineVars, serverVars>>
    /\ UNCHANGED <<arg_use_cache, arg_kwargs, sent_before>>
    /\ UNCHANGED <<timeout, spawned, request_id, tools_cache, cache_age,
                   op, cur_id, clock, response, sent>>
WaitExpiresEarly == WaitExpiresAt(0)
WaitExpires == WaitExpiresAt(GracePeriod)

\* the caller has the outcome; the locals of the call are gone
ClientDone ==
    /\ cpc = "done"
    /\ cpc' = IF op = "init" THEN "new" ELSE "idle"
    /\ op' = "none"
    /\ cur_id' = 0
    /\ clock' = 0
    /\ response' = NoFrame
    /\ result' = NoClientOutcome
    /\ procOps' = <<>>
    /\ arg_use_cache' = FALSE
    /\ arg_kwargs' = "json"
    /\ sent_before' = 0
    /\ UNCHANGED <<engineVars, serverVars>>
    /\ UNCHANGED <<timeout, process, spawned, live, request_id, tools_cache,
                   cache_age, stdin, stdout, sent>>

\* TimeStep seconds go by between two calls
TimePasses ==
    /\ cpc = "idle"
    /\ cache_age < CacheTTL
    /\ cache_age' = Min(cache_age + TimeStep, CacheTTL)
    /\ UNCHANGED <<engineVars, serverVars>>
    /\ UNCHANGED <<arg_use_cache, arg_kwargs, sent_before>>
    /\ UNCHANGED <<cpc, timeout, process, spawned, live, request_id,
                   tools_cache, stdin, stdout, op, cur_id, clock, response,
                   result, sent, procOps>>

\* the child reads the oldest request of its stdin and writes a JSON object
\* of shape sh for it
ChildAnswers(sh, c) ==
    /\ process \in live
    /\ stdin # <<>>
    /\ Len(stdout) < MaxBuf
    /\ stdin' = Tail(stdin)
    /\ stdout' = Append(stdout,
                        Frame(sh, Head(stdin),
                              IF sh \in {"error", "both"} THEN c ELSE 0))
    /\ UNCHANGED <<engineVars, serverVars>>
    /\ UNCHANGED <<arg_use_cache, arg_kwargs, sent_before>>
    /\ UNCHANGED <<cpc, timeout, process, spawned, live, request_id,
                   tools_cache, cache_age, op, cur_id, clock, response,
                   result, sent, procOps>>

\* the child prints a line that answers nothing
ChildEmitsNoise(sh) ==
    /\ process \in live
    /\ Len(stdout) < MaxBuf
    /\ stdout' = Append(stdout, Frame(sh, 0, 0))
    /\ UNCHANGED <<engineVars, serverVars>>
    /\ UNCHANGED <<arg_use_cache, arg_kwargs, sent_before>>
    /\ UNCHANGED <<cpc, timeout, process, spawned, live, request_id,
                   tools_cache, cache_age, stdin, op, cur_id, clock,
                   response, result, sent, procOps>>

\* a child exits, whether the client still refers to it or not
ChildExits(ch) ==
    /\ ch \in live
    /\ live' = live \ {ch}
    /\ UNCHANGED <<engineVars, serverVars>>
    /\ UNCHANGED <<arg_use_cache, arg_kwargs, sent_before>>
    /\ UNCHANGED <<cpc, timeout, process, spawned, request_id, tools_cache,
                   cache_age, stdin, stdout, op, cur_id, clock, response,
                   result, sent, procOps>>

NextClient ==
     \/ \E t \in TimeoutArgs, ac \in BOOLEAN : ClientInit(t, ac)
     \/ \E t \in TimeoutArgs : ClientInitFails(t)
     \/ Connect
     \/ ConnectFails
     \/ \E tool_name \in ToolNames, kwargs \in KwargsArgs :
            CallTool(tool_name, kwargs)
     \/ \E use_cache \in BOOLEAN : ListTools(use_cache)
     \/ Write
     \/ ReadLine
     \/ ReadEOF
     \/ ReadBlocks
     \/ DisconnectNone
     \/ DisconnectTerminate
     \/ DisconnectTerminateRaises
     \/ WaitBlocks
     \/ WaitReturns
     \/ WaitExpires
     \/ ClientDone
     \/ TimePasses
     \/ \E sh \in JsonShapes, c \in ErrorCodes : ChildAnswers(sh, c)
     \/ \E sh \in NoiseShapes : ChildEmitsNoise(sh)
     \/ \E ch \in 1 .. MaxChildren : ChildExits(ch)

\* one MCPChatbotClient, its callers and its children
SpecClient == Init /\ [][NextClient]_vars

\* the same, where the caller's thread keeps running and time keeps going
\* by: a step of _send_request that can be taken is taken.  Nothing obliges
\* the child to write or to exit.
SpecClientLive ==
    /\ SpecClient
    /\ WF_vars(Write)
    /\ WF_vars(ReadLine)
    /\ WF_vars(ReadEOF)
    /\ WF_vars(ReadBlocks)

\* ========================================================= WebhookServer
\* A task runs without interruption from one suspension to the next: it
\* is suspended by the sleep inside _initialize and _cleanup, by
\* asyncio.sleep(restart_delay) and by acquire on a lock that is not free.

\* WebhookServer.is_running
is_running == _state = RUNNING

\* WebhookServer.code_generation_enabled
code_generation_enabled == _code_generation_enabled /\ is_running

\* Lock.acquire returns at once when the lock is free and nobody waits
LockFree == _lock.holder = NoTask /\ _lock.waiters = <<>>

\* the lock once t holds it; a task woken by release leaves the queue
Acquire(t) ==
    [holder |-> t,
     waiters |-> IF _lock.waiters # <<>> /\ Head(_lock.waiters) = t
                     THEN Tail(_lock.waiters)
                     ELSE _lock.waiters]

\* the lock l once its holder has left "async with self._lock"
Release(l) == [l EXCEPT !.holder = NoTask]

\* task o is inside an operation
Active(o) == tasks[o].pc \notin {"idle", "done"}

\* the tasks once idle task t has called operation o
Began(t, o) ==
    [u \in Tasks |->
        IF u = t
            THEN [op |-> o, pc |-> "idle", result |-> "none",
                  alone |-> \A w \in Tasks \ {t} : ~Active(w)]
        ELSE IF Active(u) THEN [tasks[u] EXCEPT !.alone = FALSE]
        ELSE tasks[u]]

CanCall(t) ==
    /\ server_config # NoServerConfig
    /\ tasks[t].pc = "idle"
    /\ calls < MaxCalls

\* WebhookServer.__init__
WebhookServerInit(c) ==
    /\ server_config = NoServerConfig
    /\ server_config' = c
    /\ _state' = STOPPED
    /\ _metrics' = ServerMetrics
    /\ _lock' = Unlocked
    /\ _code_generation_enabled' = c.enable_code_generation
    /\ UNCHANGED <<tasks, calls>>
    /\ UNCHANGED <<engineVars, clientVars>>

\* exception e leaves the operation of task t, the metrics being m: the
\* except clause of restart counts it before it reaches the task
Raise(t, ts, e, m) ==
    /\ tasks' = [ts EXCEPT ![t].pc = "done", ![t].result = e]
    /\ _metrics' = IF ts[t].op = "restart"
                       THEN [m EXCEPT !.errors = @ + 1]
                       ELSE m

\* start() inside "async with self._lock", l being the lock t holds
StartLocked(t, ts, l) ==
    IF _state = RUNNING
        THEN /\ _lock' = Release(l)
             /\ Raise(t, ts, AlreadyRunning, _metrics)
             /\ UNCHANGED <<_state, _code_generation_enabled>>
        ELSE /\ _state' = STARTING
             /\ _lock' = l
             /\ tasks' = [ts EXCEPT ![t].pc = "initialize"]
             /\ UNCHANGED <<_metrics, _code_generation_enabled>>

\* start() from its first line to its first suspension
StartBegins(t, ts) ==
    IF LockFree
        THEN StartLocked(t, ts, Acquire(t))
        ELSE /\ _lock' = [_lock EXCEPT !.waiters = Append(@, t)]
             /\ tasks' = [ts EXCEPT ![t].pc = "start_lock"]
             /\ UNCHANGED <<_state, _metrics, _code_generation_enabled>>

\* stop() has returned: a task that called stop is done, restart goes on
\* to asyncio.sleep(restart_delay)
StopReturned(t, ts) ==
    IF ts[t].op = "restart"
        THEN [ts EXCEPT ![t].pc = "sleep"]
        ELSE [ts EXCEPT ![t].pc = "done", ![t].result = Completed]

\* stop() inside "async with self._lock", st being self._state
StopLocked(t, ts, l, st) ==
    IF st = STOPPED
        THEN /\ _lock' = Release(l)
             /\ _state' = st
             /\ tasks' = StopReturned(t, ts)
             /\ UNCHANGED <<_metrics, _code_generation_enabled>>
        ELSE /\ _state' = STOPPING
             /\ _lock' = l
             /\ tasks' = [ts EXCEPT ![t].pc = "cleanup"]
             /\ UNCHANGED <<_metrics, _code_generation_enabled>>

\* stop() from its first line to its first suspension
StopBegins(t, ts, st) ==
    IF LockFree
        THEN StopLocked(t, ts, Acquire(t), st)
        ELSE /\ _lock' = [_lock EXCEPT !.waiters = Append(@, t)]
             /\ _state' = st
             /\ tasks' = [ts EXCEPT ![t].pc = "stop_lock"]
             /\ UNCHANGED <<_metrics, _code_generation_enabled>>

\* await server.start()
Start(t) ==
    /\ CanCall(t)
    /\ calls' = calls + 1
    /\ StartBegins(t, Began(t, "start"))
    /\ UNCHANGED server_config
    /\ UNCHANGED <<engineVars, clientVars>>

\* the lock start() waited for is handed to t
StartLockAcquired(t) ==
    /\ tasks[t].pc = "start_lock"
    /\ _lock.holder = NoTask
    /\ Head(_lock.waiters) = t
    /\ StartLocked(t, tasks, Acquire(t))
    /\ UNCHANGED <<server_config, calls>>
    /\ UNCHANGED <<engineVars, clientVars>>

\* _initialize returns: the rest of start(), and of restart() after it
InitializeReturnsNoCount(t) ==
    /\ tasks[t].pc = "initialize"
    /\ _state' = RUNNING
    /\ _code_generation_enabled' = server_config.enable_code_generation
    /\ _lock' = Release(_lock)
    /\ UNCHANGED _metrics
    /\ tasks' = [tasks EXCEPT ![t].pc = "done", ![t].result = Completed]
    /\ UNCHANGED <<server_config, calls>>
    /\ UNCHANGED <<engineVars, clientVars>>
InitializeReturns(t) ==
    /\ tasks[t].pc = "initialize"
    /\ _state' = RUNNING
    /\ _code_generation_enabled' = server_config.enable_code_generation
    /\ _lock' = Release(_lock)
    /\ _metrics' = IF tasks[t].op = "restart"
                       THEN [_metrics EXCEPT !.restart_count = @ + 1]
                       ELSE _metrics
    /\ tasks' = [tasks EXCEPT ![t].pc = "done", ![t].result = Completed]
    /\ UNCHANGED <<server_config, calls>>
    /\ UNCHANGED <<engineVars, clientVars>>

\* _initialize raises: the except clause of start()
InitializeRaises(t) ==
    /\ tasks[t].pc = "initialize"
    /\ _state' = STOPPED
    /\ _lock' = Release(_lock)
    /\ Raise(t, tasks, HookError, [_metrics EXCEPT !.errors = @ + 1])
    /\ UNCHANGED <<server_config, _code_generation_enabled, calls>>
    /\ UNCHANGED <<engineVars, clientVars>>

\* await server.stop()
Stop(t) ==
    /\ CanCall(t)
    /\ calls' = calls + 1
    /\ StopBegins(t, Began(t, "stop"), _state)
    /\ UNCHANGED server_config
    /\ UNCHANGED <<engineVars, clientVars>>

\* the lock stop() waited for is handed to t
StopLockAcquired(t) ==
    /\ tasks[t].pc = "stop_lock"
    /\ _lock.holder = NoTask
    /\ Head(_lock.waiters) = t
    /\ StopLocked(t, tasks, Acquire(t), _state)
    /\ UNCHANGED <<server_config, calls>>
    /\ UNCHANGED <<engineVars, clientVars>>

\* _cleanup returns: the rest of stop()
CleanupReturns(t) ==
    /\ tasks[t].pc = "cleanup"
    /\ _state' = STOPPED
    /\ _lock' = Release(_lock)
    /\ tasks' = StopReturned(t, tasks)
    /\ UNCHANGED <<server_config, _metrics, _code_generation_enabled,
                   calls>>
    /\ UNCHANGED <<engineVars, clientVars>>

\* _cleanup raises: the except clause of stop() leaves self._state alone
CleanupRaises(t) ==
    /\ tasks[t].pc = "cleanup"
    /\ _lock' = Release(_lock)
    /\ Raise(t, tasks, HookError, [_metrics EXCEPT !.errors = @ + 1])
    /\ UNCHANGED <<server_config, _state, _code_generation_enabled, calls>>
    /\ UNCHANGED <<engineVars, clientVars>>

\* await server.restart(): self._state = RESTARTING, then stop(), which
\* is called in every state because RESTARTING is not STOPPED
Restart(t) ==
    /\ CanCall(t)
    /\ calls' = calls + 1
    /\ StopBegins(t, Began(t, "restart"), RESTARTING)
    /\ UNCHANGED server_config
    /\ UNCHANGED <<engineVars, clientVars>>

\* asyncio.sleep(restart_delay) returns: restart() calls start()
SleepReturns(t) ==
    /\ tasks[t].pc = "sleep"
    /\ StartBegins(t, tasks)
    /\ UNCHANGED <<server_config, calls>>
    /\ UNCHANGED <<engineVars, clientVars>>

\* await server.handle_request(request)
HandleRequestNoGuard(t) ==
    /\ CanCall(t)
    /\ calls' = calls + 1
    /\ _metrics' = [_metrics EXCEPT !.requests_handled = @ + 1]
    /\ tasks' = [Began(t, "handle_request") EXCEPT
                     ![t].pc = "done", ![t].result = Completed]
    /\ UNCHANGED <<server_config, _state, _lock, _code_generation_enabled>>
    /\ UNCHANGED <<engineVars, clientVars>>
HandleRequest(t) ==
    /\ CanCall(t)
    /\ calls' = calls + 1
    /\ IF ~is_running
           THEN /\ tasks' = [Began(t, "handle_request") EXCEPT
                                 ![t].pc = "done", ![t].result = NotRunning]
                /\ UNCHANGED _metrics
           ELSE /\ _metrics' = [_metrics EXCEPT !.requests_handled = @ + 1]
                /\ tasks' = [Began(t, "handle_request") EXCEPT
                                 ![t].pc = "done", ![t].result = Completed]
    /\ UNCHANGED <<server_config, _state, _lock, _code_generation_enabled>>
    /\ UNCHANGED <<engineVars, clientVars>>

\* await server.generate_code(prompt)
GenerateCode(t) ==
    /\ CanCall(t)
    /\ calls' = calls + 1
    /\ LET r == IF ~is_running THEN NotRunning
                ELSE IF ~code_generation_enabled THEN NotEnabled
                ELSE Completed
       IN /\ tasks' = [Began(t, "generate_code") EXCEPT
                           ![t].pc = "done", ![t].result = r]
          /\ _metrics' = IF r = Completed
                             THEN [_metrics EXCEPT
                                       !.code_generations = @ + 1]
                             ELSE _metrics
    /\ UNCHANGED <<server_config, _state, _lock, _code_generation_enabled>>
    /\ UNCHANGED <<engineVars, clientVars>>

\* the task that awaited the operation goes on
TaskDone(t) ==
    /\ tasks[t].pc = "done"
    /\ tasks' = [tasks EXCEPT ![t] = IdleTask]
    /\ UNCHANGED <<server_config, _state, _metrics, _lock,
                   _code_generation_enabled, calls>>
    /\ UNCHANGED <<engineVars, clientVars>>

NextServer ==
    \/ \E e \in BOOLEAN : WebhookServerInit(ServerConfig(e))
    \/ \E t \in Tasks : Start(t)
    \/ \E t \in Tasks : StartLockAcquired(t)
    \/ \E t \in Tasks : InitializeReturns(t)
    \/ \E t \in Tasks : InitializeRaises(t)
    \/ \E t \in Tasks : Stop(t)
    \/ \E t \in Tasks : StopLockAcquired(t)
    \/ \E t \in Tasks : CleanupReturns(t)
    \/ \E t \in Tasks : CleanupRaises(t)
    \/ \E t \in Tasks : Restart(t)
    \/ \E t \in Tasks : SleepReturns(t)
    \/ \E t \in Tasks : HandleRequest(t)
    \/ \E t \in Tasks : GenerateCode(t)
    \/ \E t \in Tasks : TaskDone(t)

SpecServer == Init /\ [][NextServer]_vars

\* ================================================================ claims
RECURSIVE SumSeq(_)
SumSeq(q) == IF q = <<>> THEN 0 ELSE Head(q) + SumSeq(Tail(q))

\* an entry point that reached execute_with_retry has finished
RunDone ==
    /\ pc = "done"
    /\ caller \in {"direct", "decorator", "retry_operation"}
    /\ PostInit(ctor_args) = "ok"

\* execute_with_retry returned a RetryResult in the finished run
HasResult == RunDone /\ outcome.result # NoResult

\* call i of the operation raised an exception the config retries
RaisedRetryable(i) ==
    /\ opHist[i].kind = "raise"
    /\ opHist[i].exc.type \in config.retryable_exceptions

\* call i of the operation raised an exception the config does not retry
RaisedOther(i) ==
    /\ opHist[i].kind = "raise"
    /\ opHist[i].exc.type \notin config.retryable_exceptions

AllRaisedRetryable == \A i \in 1 .. Len(opHist) : RaisedRetryable(i)

\* the first k calls raised a retryable exception and call k+1 returned
FailedThenSucceeded(k) ==
    /\ Len(opHist) = k + 1
    /\ \A i \in 1 .. k : RaisedRetryable(i)
    /\ opHist[k + 1].kind = "return"

\* C1: when every call of the operation raises a retryable exception,
\* execute_with_retry calls it exactly max_retries + 1 times and returns a
\* RetryResult with success = false, attempts = max_retries + 1 and the
\* exception of the last call; with max_retries = 0 it never sleeps.
C1_AlwaysFailing ==
    (RunDone /\ caller = "direct" /\ AllRaisedRetryable) =>
        /\ Len(opHist) = config.max_retries + 1
        /\ outcome.kind = "result"
        /\ outcome.result.success = FALSE
        /\ outcome.result.attempts = config.max_retries + 1
        /\ outcome.result.last_exception = opHist[Len(opHist)].exc
        /\ (config.max_retries = 0 => sleeps = <<>>)

\* C2: an operation that raises a retryable exception k times and then
\* succeeds, with max_retries >= k, is called k + 1 times; the result has
\* success = true and attempts = k + 1, sleep was called k times and
\* total_retries grew by k.  The execution cannot end while the operation
\* has only failed and attempts remain.
C2_FailsThenSucceeds ==
    RunDone =>
        /\ \A k \in 0 .. config.max_retries :
              FailedThenSucceeded(k) =>
                  /\ outcome.result.success = TRUE
                  /\ outcome.result.attempts = k + 1
                  /\ Len(sleeps) = k
                  /\ total_retries[System(caller)] = retries_at_start + k
        /\ ~(AllRaisedRetryable /\ Len(opHist) <= config.max_retries)

\* C3: between executions, total_retries of a system is the number of
\* re-attempts that system made since its counter was last reset.
C3_TotalRetriesCountsRetries ==
    pc \in {"idle", "done"} =>
        total_retries["shared"] = retries_performed["shared"]

\* C4: a call that raises an exception outside retryable_exceptions is the
\* last call: the exception reaches the caller, no RetryResult is returned,
\* and neither a sleep nor a total_retries increment happens for it.
C4_NonRetryablePropagates ==
    \A i \in 1 .. Len(opHist) :
        RaisedOther(i) =>
            /\ i = Len(opHist)
            /\ pc = "done"
            /\ outcome.kind = "raised"
            /\ outcome.exc = opHist[i].exc
            /\ outcome.result = NoResult
            /\ Len(sleeps) = i - 1
            /\ total_retries[System(caller)] = retries_at_start + (i - 1)

\* C4 witness: a non-retryable exception after two retried failures
C4_Witness ==
    /\ RunDone
    /\ Len(opHist) = 3
    /\ RaisedRetryable(1) /\ RaisedRetryable(2) /\ RaisedOther(3)

\* C5: the total_delay of a RetryResult is the sum of the durations passed
\* to sleep; a first-attempt success slept never; nothing is slept after
\* the last permitted attempt, so a failed result follows max_retries sleeps.
C5_TotalDelayIsSumOfSleeps ==
    /\ HasResult =>
          /\ outcome.result.total_delay = SumSeq(sleeps)
          /\ (outcome.result.success /\ outcome.result.attempts = 1) =>
                 (sleeps = <<>> /\ outcome.result.total_delay = 0)
          /\ ~outcome.result.success => Len(sleeps) = config.max_retries
    /\ pc = "exhausted" => Len(sleeps) = config.max_retries

\* C5 witness: an exhausted execution that slept twice for a positive time
C5_Witness ==
    /\ HasResult
    /\ ~outcome.result.success
    /\ Len(sleeps) = 2
    /\ outcome.result.total_delay > 0

\* the capped delay as the claims state it
ClaimedDelay(a, c) ==
    IF c.strategy = EXPONENTIAL
        THEN Min(c.base_delay * Pow(c.exponential_base, a), c.max_delay)
    ELSE IF c.strategy = LINEAR
        THEN Min(c.base_delay * (a + 1), c.max_delay)
    ELSE c.base_delay

DelayDone == pc = "done" /\ caller = "calculate_delay"

\* C6: with jitter disabled calculate_delay(a) is min(base * exp_base^a,
\* max_delay), min(base * (a + 1), max_delay) or base_delay according to
\* the strategy, and is never negative.
C6_DelayWithoutJitter ==
    (DelayDone /\ ~config.jitter) =>
        /\ delay = ClaimedDelay(attempt, config)
        /\ delay >= 0

\* C7: with jitter enabled calculate_delay(a) lies between
\* max(0, d * (1 - f)) and d * (1 + f), d being the capped delay, and is
\* never negative.
C7_DelayWithJitter ==
    (DelayDone /\ config.jitter) =>
        LET d == ClaimedDelay(attempt, config)
            f == config.jitter_factor
        IN /\ delay * Unit >= Max(0, d * (Unit - f))
           /\ delay * Unit <= d * (Unit + f)
           /\ delay >= 0

\* the arguments the claim says the constructor rejects
InvalidArgs(a) ==
    \/ a.max_retries < 0
    \/ a.base_delay < 0
    \/ a.max_delay < a.base_delay
    \/ a.jitter_factor < 0
    \/ a.jitter_factor > Unit

\* C8: RetryConfig(...) raises ValueError when max_retries < 0,
\* base_delay < 0, max_delay < base_delay or jitter_factor is outside
\* [0, 1], so every config in use, whoever built it, has max_retries >= 0,
\* 0 <= base_delay <= max_delay and 0 <= jitter_factor <= 1.
C8_ConfigValidated ==
    /\ (caller # "none" /\ InvalidArgs(ctor_args)) =>
          /\ pc = "done"
          /\ outcome.kind = "raised"
          /\ outcome.exc.type = "ValueError"
          /\ outcome.exc.src = -1
          /\ opHist = <<>>
    /\ \A c \in {config, default_config} :
          /\ c.max_retries >= 0
          /\ 0 <= c.base_delay /\ c.base_delay <= c.max_delay
          /\ 0 <= c.jitter_factor /\ c.jitter_factor <= Unit

\* C8 witness: the decorator's constructor call rejected for max_delay <
\* base_delay alone
C8_Witness ==
    /\ pc = "done"
    /\ caller = "decorator"
    /\ ctor_args.max_retries >= 0
    /\ ctor_args.base_delay >= 0
    /\ ctor_args.max_delay < ctor_args.base_delay
    /\ outcome.exc.msg = "max_delay must be >= base_delay"

\* C9: a returned RetryResult has attempts >= 1 and total_delay >= 0, has a
\* last_exception exactly when success is false, and carries a result
\* value only when success is true.
C9_ResultWellFormed ==
    HasResult =>
        /\ outcome.result.attempts >= 1
        /\ outcome.result.total_delay >= 0
        /\ (outcome.result.last_exception # NoException) <=> ~outcome.result.success
        /\ outcome.result.result # None => outcome.result.success

\* C9 witness: a success reached after an earlier failure, with an
\* exponential_base that makes later delays negative
C9_Witness ==
    /\ HasResult
    /\ outcome.result.success
    /\ outcome.result.attempts = 2
    /\ last_exception # NoException
    /\ config.exponential_base < 0
    /\ ~config.jitter

\* C10: the wrapper made by retry() and retry_operation() return the value
\* of the attempt that succeeded, and otherwise raise the exception of the
\* last attempt.
C10_WrappersReturnOrRaise ==
    (RunDone /\ caller \in {"decorator", "retry_operation"}) =>
        LET last == opHist[Len(opHist)]
        IN IF last.kind = "return"
               THEN outcome.kind = "value" /\ outcome.value = last.value
               ELSE outcome.kind = "raised" /\ outcome.exc = last.exc

\* ------------------------------------------------------------ MCP client
\* a client call has ended and its caller has what it gave
CallDone == cpc = "done" /\ op \in {"call_tool", "list_tools"}

\* C11: within one client the ids of the requests written to the child are
\* 1, 2, 3, ... in the order written: they start at 1, strictly increase
\* and none is used twice, whatever calls failed and whatever connects and
\* disconnects came between; a child only ever holds ids that were written.
C11_RequestIdsIncrease ==
    /\ \A i \in 1 .. Len(sent) : sent[i] = i
    /\ Len(sent) <= request_id
    /\ \A j \in 1 .. Len(stdin) : \E i \in 1 .. Len(sent) : stdin[j] = sent[i]

\* C11, as the code has it: the ids written to the child strictly increase,
\* so none is used twice, and each is an id the counter has handed out (1
\* or more); an id whose request could not be encoded is never written, so
\* the ids written need not start at 1 nor be consecutive.
C11_WrittenIdsIncrease ==
    /\ \A i \in 1 .. Len(sent) : 1 <= sent[i] /\ sent[i] <= request_id
    /\ \A i \in 1 .. Len(sent) - 1 : sent[i] < sent[i + 1]
    /\ \A j \in 1 .. Len(stdin) : \E i \in 1 .. Len(sent) : stdin[j] = sent[i]

\* the second request is with the second child: a connect came between
C11_Witness ==
    /\ sent = <<1, 2>>
    /\ process = 2
    /\ stdin = <<2>>

\* the frame the call read is a JSON object (an answer of the child)
ReadAnswer == CallDone /\ response.shape \in JsonShapes

\* C12: when the frame read in answer to a request carries another id than
\* the request, the call fails and does not return that frame's result.
C12_IdMismatchFails ==
    (ReadAnswer /\ response.id # cur_id) =>
        (result.kind = "raised" /\ result.result = 0)

\* the step that ends the exchange of a request that was written to a
\* running child
ExchangeEnds ==
    /\ cpc \in {"write", "read"}
    /\ cpc' = "done"
    /\ result' # BrokenPipeError
\* C13: when no response frame has arrived before the timeout the call
\* fails with the timeout failure, having written its request exactly once;
\* that failure leaves the child running and the client connected.
C13_TimeoutStep ==
    (ExchangeEnds /\ clock' >= timeout) =>
        /\ result' = TimeoutError
        /\ Cardinality({i \in 1 .. Len(sent') : sent'[i] = cur_id}) = 1
        /\ process' \in live'
        /\ UNCHANGED <<process, live>>
C13_TimeoutFailsAndKeepsChild == [][C13_TimeoutStep]_vars

\* C14: every result a call returns from a frame is the result of the
\* response the child produced for that call's own request.
C14_ResultIsOwnResponse ==
    (CallDone /\ result.kind = "returned" /\ response # NoFrame) =>
        result.result = cur_id

\* a call that is not served from the tool cache begins
RequestIssued ==
    /\ cpc = "idle"
    /\ op' \in {"call_tool", "list_tools"}
    /\ ~(op' = "list_tools" /\ Cached(tools_cache) /\ CacheFresh
         /\ result' = ClientReturned(tools_cache.of))
\* C15: a request issued while the process was never started, was
\* disconnected or has exited fails with the not-connected failure before
\* any I/O: nothing written, nothing read, request_id unchanged.
C15_Step ==
    (RequestIssued /\ ~IsConnected) =>
        /\ result' = NotConnectedError
        /\ cpc' = "done"
        /\ UNCHANGED <<request_id, sent, stdin, stdout, response>>
C15_NotConnectedFailsBeforeIO == [][C15_Step]_vars
\* the child of a client that has issued a request before has exited, and
\* the next request failed
C15_Witness ==
    /\ CallDone
    /\ result = NotConnectedError
    /\ process # NoProcess
    /\ process \notin live
    /\ request_id = 1
    /\ sent = <<1>>

\* C16: when the frame read is an error envelope, call_tool (and the
\* methods built on it) and list_tools raise a failure that shows the
\* server's error object, and return nothing.
C16_ErrorEnvelopeRaises ==
    (CallDone /\ response.shape = "error") =>
        /\ result.kind = "raised"
        /\ result.err \in {"Tool error", "Failed to list tools"}
        /\ result.code = response.code
        /\ result.code \in ErrorCodes
        /\ result.result = 0
C16_Witness ==
    /\ CallDone
    /\ op = "list_tools"
    /\ response.shape = "error"
    /\ result.kind = "raised"

\* what the read of a call can give that is no answer: nothing at all,
\* a bare newline, a line that is not JSON, a JSON object with neither key
Malformed == {"empty", "blank", "garbage", "neither"}
\* C17: an empty frame, a frame that is not JSON and a JSON object with
\* neither result nor error each make the call fail, with a failure that
\* none of the other cases gives, and that is not the timeout failure.
C17_MalformedDistinct ==
    (CallDone /\ response.shape \in Malformed) =>
        /\ result.kind = "raised"
        /\ result # TimeoutError
        /\ \A sh \in Malformed \ {"empty", response.shape} :
               result # Complete(op, Frame(sh, response.id, 0))

\* C18: a frame is returned as a success only if it carries a result and no
\* error.
C18_BothKeysNotSuccess ==
    (CallDone /\ result.kind = "returned" /\ response # NoFrame) =>
        response.shape \in {"result", "no_tools"}

\* C19: disconnect calls terminate first, kills only a child still running
\* after the 5 seconds of wait, and has released the handle when it ends,
\* on every path; with no handle it does nothing at all.
C19_Step ==
    /\ (cpc = "idle" /\ op' = "disconnect" /\ process = NoProcess) =>
           /\ cpc' = "done"
           /\ result'.kind = "returned"
           /\ UNCHANGED <<process, live, spawned, procOps, stdin, stdout>>
    /\ (cpc = "idle" /\ op' = "disconnect" /\ process # NoProcess) =>
           procOps' = <<"terminate">>
    /\ (procOps' # procOps /\ procOps' # <<>>
        /\ procOps'[Len(procOps')] = "kill") =>
           /\ clock = GracePeriod
           /\ process \in live
           /\ procOps' = <<"terminate", "wait", "kill">>
           /\ process \notin live'
    /\ (op' = "disconnect" /\ cpc' = "done") =>
           (process' = NoProcess /\ ~IsConnected')
C19_DisconnectReleases == [][C19_Step]_vars
\* a disconnect that had to kill has ended
C19_Witness ==
    /\ cpc = "done"
    /\ op = "disconnect"
    /\ procOps = <<"terminate", "wait", "kill">>
    /\ process = NoProcess

\* C20: at most one child started by the client is running, and a running
\* child is the one the handle refers to.
C20_OneLiveChild ==
    /\ Cardinality(live) <= 1
    /\ \A ch \in live : ch = process

\* ------------------------------------------------- tool cache, retry, wait
\* a list_tools call begins
ListToolsBegins == cpc = "idle" /\ op' = "list_tools"
\* a list_tools call ends with the tool list of the frame it read
ListToolsLoaded ==
    /\ op = "list_tools"
    /\ cpc = "read"
    /\ cpc' = "done"
    /\ result'.kind = "returned"

\* C21: whatever tool list is cached, the empty one included, a list_tools
\* call with caching enabled made while the cache is younger than 60 s
\* returns the cached list and sends no request; a call made at age >= 60 s
\* on a connected client sends a request, and the list it loads replaces
\* the cached list and the timestamp together.
C21_Step ==
    /\ (ListToolsBegins /\ arg_use_cache' /\ tools_cache # NoTools
        /\ cache_age < CacheTTL) =>
           /\ cpc' = "done"
           /\ result' = ClientReturned(tools_cache.of)
           /\ UNCHANGED <<request_id, sent, stdin, tools_cache, cache_age>>
    /\ (ListToolsBegins /\ cache_age >= CacheTTL /\ IsConnected) =>
           (cpc' = "write" /\ request_id' = request_id + 1)
    /\ ListToolsLoaded =>
           (tools_cache' = Tools(Head(stdout)) /\ cache_age' = 0)
C21_CacheWithinTTL == [][C21_Step]_vars

\* requests the call in progress has passed to stdin.write
RequestsOfCall == Len(sent) - sent_before
\* C22: a call that ends with the timeout failure has been sent again at
\* least once; a call that ends with another failure was sent at most
\* once; a failed connect has started no child.
C22_TimeoutIsRetried ==
    /\ (CallDone /\ result = TimeoutError) => RequestsOfCall > 1
    /\ (CallDone /\ result.kind = "raised" /\ result # TimeoutError) =>
           RequestsOfCall <= 1
    /\ (cpc = "done" /\ op = "connect" /\ result.kind = "raised") =>
           RequestsOfCall = 0

\* C23: every call whose request is written ends, with a result or with a
\* failure, even if the child keeps running and never writes a line.
C23_CallEnds == [](cpc \in {"write", "read"} => <>(cpc = "done"))

\* C28: a list_tools call that fails leaves the cached list and its
\* timestamp as they were, so that a call with caching enabled made while
\* the cache is younger than 60 s returns the cached list; a call with
\* use_cache = false is never served from the cache, and the list it loads
\* replaces the cached list and the timestamp.
C28_Step ==
    /\ (op' = "list_tools" /\ cpc' = "done" /\ result'.kind = "raised") =>
           UNCHANGED <<tools_cache, cache_age>>
    /\ (ListToolsBegins /\ ~arg_use_cache') =>
           (cpc' = "write" \/ result' = NotConnectedError)
    /\ (ListToolsLoaded /\ ~arg_use_cache) =>
           (tools_cache' = Tools(Head(stdout)) /\ cache_age' = 0)
    /\ (ListToolsBegins /\ arg_use_cache' /\ tools_cache # NoTools
        /\ cache_age < CacheTTL) =>
           result' = ClientReturned(tools_cache.of)
C28_FailureKeepsCache == [][C28_Step]_vars

\* C24: for every valid RetryConfig the duration execute_with_retry passes
\* to sleep between two attempts never exceeds max_delay.
C24_SleepWithinMaxDelay ==
    /\ \A i \in 1 .. Len(sleeps) : sleeps[i] <= config.max_delay
    /\ (pc = "sleep" => delay <= config.max_delay)

\* C26: the duration slept after the failure of attempt i (counted from 0)
\* is calculate_delay(i); with jitter disabled the sleeps of one execution
\* never decrease, and after exhaustion total_delay is the sum of
\* calculate_delay(i) for i = 0 .. max_retries - 1.
C26_SleepsFollowCalculateDelay ==
    /\ \A i \in 1 .. Len(sleeps) :
          \E u \in Draws : sleeps[i] = CalculateDelay(i - 1, config, u)
    /\ ~config.jitter =>
          \A i \in 1 .. Len(sleeps) - 1 : sleeps[i] <= sleeps[i + 1]
    /\ (HasResult /\ ~outcome.result.success /\ ~config.jitter) =>
          outcome.result.total_delay =
              SumSeq([i \in 1 .. config.max_retries |->
                         CalculateDelay(i - 1, config, 0)])

\* ---------------------------------------------------------- WebhookServer
\* task t ends operation o in this step
Ends(t, o) ==
    /\ tasks[t].pc # "done"
    /\ tasks'[t].pc = "done"
    /\ tasks'[t].op = o

\* C25: a restart that runs alone and completes without error, whatever
\* the state it was called in, leaves the server RUNNING, adds exactly 1 to
\* restart_count and changes no other metric, and code generation is then
\* enabled exactly when the config enables it; so n such restarts in a row
\* give restart_count = n.
C25_Step ==
    \A t \in Tasks :
        (tasks'[t].op = "restart" /\ tasks'[t].alone
         /\ tasks[t].pc # "done") =>
            IF tasks'[t].pc = "done"
                THEN tasks'[t].result = Completed =>
                         /\ _state' = RUNNING
                         /\ _metrics' =
                                [_metrics EXCEPT !.restart_count = @ + 1]
                         /\ code_generation_enabled' =
                                server_config.enable_code_generation
                ELSE _metrics' = _metrics
C25_RestartAlone == [][C25_Step]_vars

\* C25 witness: the second of two restarts that ran alone has completed
C25_Witness ==
    \E t \in Tasks :
        /\ tasks[t].op = "restart"
        /\ tasks[t].pc = "done"
        /\ tasks[t].alone
        /\ tasks[t].result = Completed
        /\ _metrics.restart_count = 2
        /\ _state = RUNNING

\* C27: handle_request and generate_code raise RuntimeError in every state
\* other than RUNNING and then change no metric; a call that succeeds adds
\* exactly 1 to its own counter and changes nothing else; and
\* code_generation_enabled is true only while is_running is.
C27_Step ==
    /\ code_generation_enabled => is_running
    /\ \A t \in Tasks :
          /\ (Ends(t, "handle_request") \/ Ends(t, "generate_code")) =>
                /\ _state # RUNNING => tasks'[t].result = NotRunning
                /\ tasks'[t].result # Completed => _metrics' = _metrics
                /\ UNCHANGED <<_state, _code_generation_enabled>>
          /\ (Ends(t, "handle_request") /\ tasks'[t].result = Completed) =>
                _metrics' = [_metrics EXCEPT !.requests_handled = @ + 1]
          /\ (Ends(t, "generate_code") /\ tasks'[t].result = Completed) =>
                _metrics' = [_metrics EXCEPT !.code_generations = @ + 1]
C27_RequestsNeedRunning == [][C27_Step]_vars

\* C27 witness: handle_request was refused while another task was inside
\* start, stop or restart
C27_Witness ==
    \E t \in Tasks :
        /\ tasks[t].op = "handle_request"
        /\ tasks[t].pc = "done"
        /\ tasks[t].result = NotRunning
        /\ _state \in {STARTING, STOPPING, RESTARTING}
        /\ _metrics.requests_handled = 1

\* C29: when restart runs concurrently with restart, start or stop, every
\* restart whose hooks do not raise completes without raising, the server
\* is RUNNING when it completes, and each restart adds exactly 1 to
\* restart_count.
C29_Step ==
    \A t \in Tasks :
        Ends(t, "restart") =>
            /\ tasks'[t].result \in {Completed, HookError}
            /\ tasks'[t].result = Completed =>
                  /\ _state' = RUNNING
                  /\ _metrics'.restart_count = _metrics.restart_count + 1
C29_ConcurrentRestarts == [][C29_Step]_vars

\* _initialize or _cleanup raises in this step
HookRaises ==
    \E t \in Tasks :
        /\ tasks[t].pc \in {"initialize", "cleanup"}
        /\ tasks'[t].result = HookError

\* C30: whenever no start, stop or restart is in progress the state is
\* STOPPED or RUNNING, also after an operation failed because _initialize
\* or _cleanup raised; and each such failure adds exactly 1 to errors.
C30_Step ==
    /\ (\A t \in Tasks : ~Active(t)') => _state' \in {STOPPED, RUNNING}
    /\ HookRaises => _metrics'.errors = _metrics.errors + 1
C30_NoTransitionalStateLeft == [][C30_Step]_vars

====
